---------------------------- MODULE Spec2Model ----------------------------
(***************************************************************************)
(* A model of vite-plugin-bookemoji: the plugin closure returned by        *)
(* bookEmojiPlugin (its four hooks and the state they share), the module   *)
(* level function createExportStatements, and the loadStories function of  *)
(* the module text it synthesizes.                                         *)
(*                                                                         *)
(* Strings are sequences of tokens.  Every character the code treats       *)
(* specially ("/", ".", "(", ")", the two quotes, the backslash, NUL) is a  *)
(* token of its own; a run of other characters ("books", ".book.svelte")   *)
(* is one token.  Equal token sequences are equal strings.                 *)
(***************************************************************************)
EXTENDS Integers, Sequences, FiniteSets, TLC

\* ------------------------------------------------------------------ bounds
\* load calls in one session
MaxLoads == 2
\* tokens in a configured glob pattern (the normalizer's inputs)
MaxPatLen == 3
\* tokens in an import specifier handed to resolveId
MaxSrcLen == 3
\* tokens in a file path handed to createExportStatements
MaxPathLen == 2
\* paths in a file list handed to createExportStatements or loadStories
MaxList == 2

\* ----------------------------------------------------------------- strings
DQ == "\""
SQ == "'"
BS == "\\"
NUL == "\\0"
NL == "\n"

\* JavaScript's undefined, where a string may stand: a reserved token sequence.
Undefined == <<"undefined">>
\* JavaScript's null, as a hook's return value.
Null == <<"null">>

RECURSIVE StringsUpTo(_, _)
StringsUpTo(A, n) ==
  IF n = 0 THEN {<<>>}
  ELSE LET S == StringsUpTo(A, n - 1)
       IN  S \cup {Append(s, c) : s \in {t \in S : Len(t) = n - 1}, c \in A}

RECURSIVE JoinWith(_, _)
JoinWith(ss, sep) ==
  IF ss = <<>> THEN <<>>
  ELSE IF Len(ss) = 1 THEN Head(ss)
  ELSE Head(ss) \o sep \o JoinWith(Tail(ss), sep)

RECURSIVE SplitSep(_)
SplitSep(s) ==
  IF s = <<>> THEN << <<>> >>
  ELSE LET r == SplitSep(Tail(s))
       IN  IF Head(s) = "/" THEN << <<>> >> \o r
           ELSE << <<Head(s)>> \o Head(r) >> \o Tail(r)

Includes(s, c) == \E i \in 1..Len(s) : s[i] = c

RECURSIVE ReplaceAll(_, _, _)
ReplaceAll(s, c, r) ==
  IF s = <<>> THEN <<>>
  ELSE (IF Head(s) = c THEN r ELSE <<Head(s)>>) \o ReplaceAll(Tail(s), c, r)

\* ------------------------------------------------- path.posix.normalize
DotDot == <<".", ".">>

RECURSIVE NormalizeString(_, _, _)
NormalizeString(segs, res, allowAboveRoot) ==
  IF segs = <<>> THEN res
  ELSE LET g == Head(segs)
           rest == Tail(segs)
       IN  IF g = <<>> \/ g = <<".">> THEN NormalizeString(rest, res, allowAboveRoot)
           ELSE IF g = DotDot
             THEN IF res # <<>> /\ res[Len(res)] # DotDot
                    THEN NormalizeString(rest, SubSeq(res, 1, Len(res) - 1), allowAboveRoot)
                  ELSE IF allowAboveRoot
                    THEN NormalizeString(rest, Append(res, DotDot), allowAboveRoot)
                  ELSE NormalizeString(rest, res, allowAboveRoot)
           ELSE NormalizeString(rest, Append(res, g), allowAboveRoot)

PosixNormalize(p) ==
  IF p = <<>> THEN <<".">>
  ELSE LET isAbsolute == p[1] = "/"
           trailingSeparator == p[Len(p)] = "/"
           body == JoinWith(NormalizeString(SplitSep(p), <<>>, ~isAbsolute), <<"/">>)
       IN  IF body = <<>>
             THEN IF isAbsolute THEN <<"/">>
                  ELSE IF trailingSeparator THEN <<".", "/">> ELSE <<".">>
           ELSE (IF isAbsolute THEN <<"/">> ELSE <<>>) \o body
                \o (IF trailingSeparator THEN <<"/">> ELSE <<>>)

\* A variant that escapes the opening parenthesis only.
GlobOfOpenOnly(pattern) == ReplaceAll(PosixNormalize(pattern), "(", <<BS, "(">>)
\* The pattern load hands to fast-glob (line 185).
GlobOf(pattern) ==
  ReplaceAll(ReplaceAll(PosixNormalize(pattern), "(", <<BS, "(">>), ")", <<BS, ")">>)

\* -------------------------------------------------------- program constants
virtualModuleId == <<"virtual:book", "emoji">>
resolvedVirtualModuleId == <<NUL>> \o virtualModuleId
DefaultGlobPattern ==
  <<".", "/", "books", "/", "stories", "/", "**", "/", "*", ".book.svelte">>
IgnoredDirs == {"node_modules", "dist", ".git", ".vscode"}

\* ------------------------------------------------------------- fast-glob
\* One path segment against one pattern segment: "*" is any run of tokens, a
\* backslash makes the next token literal.
RECURSIVE MatchSeg(_, _)
MatchSeg(p, f) ==
  IF p = <<>> THEN f = <<>>
  ELSE IF Head(p) = "*"
    THEN MatchSeg(Tail(p), f) \/ (f # <<>> /\ MatchSeg(p, Tail(f)))
  ELSE IF Head(p) = BS /\ Len(p) >= 2
    THEN f # <<>> /\ Head(f) = p[2] /\ MatchSeg(Tail(Tail(p)), Tail(f))
  ELSE f # <<>> /\ Head(f) = Head(p) /\ MatchSeg(Tail(p), Tail(f))

\* Segment lists: "**" is any run of directories (globstar: true).
RECURSIVE MatchSegs(_, _)
MatchSegs(ps, fs) ==
  IF ps = <<>> THEN fs = <<>>
  ELSE IF Head(ps) = <<"**">>
    THEN MatchSegs(Tail(ps), fs) \/ (fs # <<>> /\ MatchSegs(ps, Tail(fs)))
  ELSE fs # <<>> /\ MatchSeg(Head(ps), Head(fs)) /\ MatchSegs(Tail(ps), Tail(fs))

Ignored(f) == f[1] \in IgnoredDirs

GlobMatches(glob, f) == MatchSegs(SplitSep(glob), SplitSep(f)) /\ ~Ignored(f)

\* fg(glob, {cwd, onlyFiles, ignore}): the matching files among those on disk, in
\* the order of the traversal (a fixed order of the directory tree).
Fg(glob, onDisk, order) == SelectSeq(order, LAMBDA f : f \in onDisk /\ GlobMatches(glob, f))

\* files.map((f) => `./${f.path}`)
DotSlash(files) == [i \in 1..Len(files) |-> <<".", "/">> \o files[i]]

\* ------------------------------------------------ createExportStatements
StoriesOpen == "export const stories = {"
StoriesClose == "};"
ImportIgnore == ": import(/* @vite-ignore */ "
EntryEnd == "), "
Indent == "  "

createExportStatements(base, files) ==
  LET entries == [i \in 1..Len(files) |->
                    <<DQ>> \o files[i] \o <<DQ, ImportIgnore, SQ>> \o files[i] \o <<SQ, EntryEnd>>]
      mapEntries == [i \in 1..Len(files) |->
                    <<DQ>> \o files[i] \o <<DQ, ": import(", DQ>> \o files[i] \o <<DQ, ")">>]
      recEntries == [i \in 1..Len(files) |-> <<DQ>> \o files[i] \o <<DQ, ": null">>]
      _base == <<"export const base = ", DQ>> \o base \o <<DQ, ";">>
      _stories ==
        <<StoriesOpen, NL, Indent>> \o JoinWith(entries, <<NL>>) \o <<NL, Indent, StoriesClose>>
      _loadStories ==
        <<"export const loadStories = async () => {", NL,
          "// this map lets our imports be statically analyzed", NL,
          "const map = {", NL, Indent>>
        \o JoinWith(mapEntries, <<",", NL>>)
        \o <<NL, Indent, "};", NL, "const record = {", NL, Indent>>
        \o JoinWith(recEntries, <<",", NL>>)
        \o <<NL, Indent, "};", NL,
             "const loadPromises = Array.from(Object.entries(map)).map(([key, loader]) => {",
             NL, "return loader.then((mod) => {", NL, "record[key] = mod.default ?? mod;",
             NL, "});", NL, "});", NL,
             "await Promise.allSettled(loadPromises);", NL, "return record;", NL, "};">>
  IN  <<NL, Indent>> \o _base \o <<NL, Indent>> \o _stories \o <<NL, Indent>> \o _loadStories
      \o <<NL, Indent>>

\* x ?? ""
OrEmpty(v) == IF v = Undefined THEN <<>> ELSE v

\* ------------------------------------------------------------ host inputs
Root == <<"/", "proj">>
Commands == {"build", "serve"}

StoryA == <<"books", "/", "stories", "/", "a", ".book.svelte">>
StoryB == <<"src", "/", "b", ".book.svelte">>
StoryC == <<"node_modules", "/", "c", ".book.svelte">>
\* The files a session may see on disk, in traversal order; StoryB and StoryC
\* are always there, StoryA comes and goes.
DiskOrder == <<StoryA, StoryC, StoryB>>
DiskFiles == {StoryA}

CustomGlobPattern == <<".", "/", "**", "/", "*", ".book.svelte">>

\* svelte.config.js's `bookemoji` value: absent, or an object with optional fields.
NoBookEmoji == [defined |-> FALSE, base |-> Undefined, stories |-> Undefined]
BookEmoji(base, stories) == [defined |-> TRUE, base |-> base, stories |-> stories]

\* What `await import(svelte.config.js)` yields: a module namespace, with or
\* without a default export.
ModNoDefault == [hasDefault |-> FALSE, bookemoji |-> NoBookEmoji]
ModDefault(b) == [hasDefault |-> TRUE, bookemoji |-> b]

\* The svelte.config.js contents a session is run against.
HostModules ==
  {ModNoDefault,
   ModDefault(NoBookEmoji),
   ModDefault(BookEmoji(Undefined, Undefined)),
   ModDefault(BookEmoji(<<"/">>, <<>>)),
   ModDefault(BookEmoji(Undefined, CustomGlobPattern)),
   ModDefault(BookEmoji(<<"/", "docs">>, CustomGlobPattern))}

PatAlphabet == {"/", ".", "(", ")", "a"}
AllPatterns == StringsUpTo(PatAlphabet, MaxPatLen)
PatternModules == {ModDefault(BookEmoji(Undefined, s)) : s \in AllPatterns}

\* What fs.access and import() may throw: an Error carrying a code, an Error
\* without one, or a thrown null/undefined.
AccessErrors == {"ENOENT", "EACCES"}
ImportErrors == {"ENOENT", "nocode", "nullish"}

\* ------------------------------------------------------------------ state
VARIABLES
  options,          \* bookEmojiPlugin's argument
  config,           \* let config: ResolvedConfig
  bookEmojiConfig,  \* let bookEmojiConfig
  userGlobPattern,  \* let userGlobPattern
  projectRoot,      \* let projectRoot
  cr,               \* the configResolved call: where it stands, what it logged
  loads,            \* the load calls: where each stands, what it returned
  disk,             \* the story files under the project root
  wrapped,          \* configureServer has replaced server.printUrls
  last,             \* the latest synchronous call and its result
  ls                \* a call of the synthesized module's loadStories

vars == <<options, config, bookEmojiConfig, userGlobPattern, projectRoot,
          cr, loads, disk, wrapped, last, ls>>

pluginState == <<projectRoot, bookEmojiConfig, userGlobPattern>>

NoConfig == [defined |-> FALSE, root |-> Undefined, command |-> "none"]
NoModule == [hasDefault |-> FALSE, bookemoji |-> NoBookEmoji]
CrIdle == [pc |-> "idle", log |-> {}, thrown |-> "none", loaded |-> FALSE, mod |-> NoModule]
LoadIdle ==
  [pc |-> "idle", id |-> Undefined, pattern |-> Undefined, glob |-> Undefined,
   cwd |-> Undefined, scan |-> {}, files |-> <<>>, failed |-> FALSE,
   base |-> Undefined, ret |-> Undefined, log |-> {}]
NoCall == [hook |-> "none", arg |-> Undefined, ret |-> Undefined]
LsIdle == [pc |-> "idle", files |-> <<>>, imports |-> <<>>, thens |-> <<>>,
           record |-> <<>>, ret |-> <<>>]

Init ==
  /\ options \in [debug : BOOLEAN, silent : BOOLEAN]
  /\ config = NoConfig
  /\ bookEmojiConfig = NoBookEmoji
  /\ userGlobPattern = DefaultGlobPattern
  /\ projectRoot = Undefined
  /\ cr = CrIdle
  /\ loads = [i \in 1..MaxLoads |-> LoadIdle]
  /\ disk = {StoryB, StoryC}
  /\ wrapped = FALSE
  /\ last = NoCall
  /\ ls = LsIdle

\* log(level, ...): debug lines are printed only under options.debug
Log(level, msg) == IF level = "debug" /\ ~options.debug THEN {} ELSE {<<level, msg>>}

\* bookEmojiConfig?.base ?? ""
ActiveBase == IF bookEmojiConfig.defined THEN OrEmpty(bookEmojiConfig.base) ELSE <<>>

\* ---------------------------------------------------------- configResolved
\* lines 96-109: up to `await fs.access(configFilePath)`
configResolved ==
  /\ cr.pc = "idle"
  /\ \E command \in Commands :
       config' = [defined |-> TRUE, root |-> Root, command |-> command]
  /\ projectRoot' = Root
  /\ cr' = [cr EXCEPT !.pc = "access",
                      !.log = Log("debug", "projectRoot") \cup Log("debug", "Attempting import")]
  /\ UNCHANGED <<options, bookEmojiConfig, userGlobPattern, loads, disk, wrapped, last, ls>>

\* lines 131-139: the catch block, given the thrown value
CatchPc(e) == IF e = "nullish" THEN "rejected" ELSE "done"
CatchLog(e) ==
  IF e = "nullish" THEN {}
  ELSE IF e = "ENOENT" THEN Log("error", "svelte.config.js not found.")
  ELSE Log("warn", "An unknown error when trying to load config")

\* fs.access settles: lines 109-114, or the catch block
accessSettled ==
  /\ cr.pc = "access"
  /\ \E e \in AccessErrors \cup {"none"} :
       cr' = IF e = "none"
               THEN [cr EXCEPT !.pc = "import", !.log = @ \cup Log("debug", "Importing")]
             ELSE [cr EXCEPT !.pc = CatchPc(e), !.log = @ \cup CatchLog(e), !.thrown = e]
  /\ UNCHANGED <<options, config, bookEmojiConfig, userGlobPattern, projectRoot,
                 loads, disk, wrapped, last, ls>>

\* lines 117-130, given the imported module
ConfigAfter(m) == IF m.hasDefault THEN m.bookemoji ELSE bookEmojiConfig
PatternAfter(m) ==
  IF m.hasDefault
    THEN (IF m.bookemoji.defined THEN OrEmpty(m.bookemoji.stories) ELSE <<>>)
  ELSE userGlobPattern
LoadedLog(m) ==
  (IF m.hasDefault THEN Log("info", "config found") ELSE {})
  \cup (IF ~ConfigAfter(m).defined
          THEN Log("warn", "bookemoji not found in svelte.config.js")
        ELSE IF PatternAfter(m) = <<>>
          THEN Log("warn", "does not contain a valid stories value")
        ELSE {})

\* import() settles: lines 117-130, or the catch block
importSettled(Modules) ==
  /\ cr.pc = "import"
  /\ \/ \E m \in Modules :
          /\ bookEmojiConfig' = ConfigAfter(m)
          /\ userGlobPattern' = PatternAfter(m)
          /\ cr' = [cr EXCEPT !.pc = "done", !.log = @ \cup LoadedLog(m),
                              !.loaded = TRUE, !.mod = m]
     \/ \E e \in ImportErrors :
          /\ cr' = [cr EXCEPT !.pc = CatchPc(e), !.log = @ \cup CatchLog(e), !.thrown = e]
          /\ UNCHANGED <<bookEmojiConfig, userGlobPattern>>
  /\ UNCHANGED <<options, config, projectRoot, loads, disk, wrapped, last, ls>>

\* ---------------------------------------------------------------- resolveId
\* A variant that accepts any specifier ending in the virtual module id.
resolveIdRetSuffix(source) ==
  IF Len(source) >= Len(virtualModuleId)
     /\ SubSeq(source, Len(source) - Len(virtualModuleId) + 1, Len(source)) = virtualModuleId
    THEN resolvedVirtualModuleId
  ELSE Null
\* lines 151-155
resolveIdRet(source) == IF source = virtualModuleId THEN resolvedVirtualModuleId ELSE Null

HostSources == {virtualModuleId, resolvedVirtualModuleId}
SrcAlphabet == {NUL, "virtual:book", "emoji", "x"}
AllSources == StringsUpTo(SrcAlphabet, MaxSrcLen)

resolveId(Sources) ==
  /\ \E source \in Sources :
       last' = [hook |-> "resolveId", arg |-> source, ret |-> resolveIdRet(source)]
  /\ UNCHANGED <<options, config, bookEmojiConfig, userGlobPattern, projectRoot,
                 cr, loads, disk, wrapped, ls>>

\* --------------------------------------------------------------------- load
LoadIds == {resolvedVirtualModuleId, virtualModuleId}

\* lines 179-188: what the call logs before it awaits fast-glob
GlobLog(pattern) ==
  Log("debug", "full search path")
  \cup (IF Includes(pattern, "(") \/ Includes(pattern, ")")
          THEN Log("debug", "escaping parenthesis") ELSE {})
  \cup Log("debug", "Searching for files") \cup Log("debug", "Original")

\* lines 166-172 and 179-197: the call, up to `await fg(...)`
LoadCallResult(l, id) ==
  IF id # resolvedVirtualModuleId
    THEN [l EXCEPT !.pc = "returned", !.id = id, !.ret = Null]
  ELSE IF projectRoot = Undefined
    THEN [l EXCEPT !.pc = "returned", !.id = id, !.base = ActiveBase,
                   !.ret = createExportStatements(ActiveBase, <<>>),
                   !.log = Log("error", "projectRoot not set")]
  ELSE [l EXCEPT !.pc = "globbing", !.id = id, !.pattern = userGlobPattern,
                 !.glob = GlobOf(userGlobPattern),
                 !.cwd = PosixNormalize(projectRoot),
                 !.log = GlobLog(userGlobPattern)]

\* A variant that stores the normalized pattern back into userGlobPattern.
loadNormalizesInPlace(i) ==
  /\ loads[i].pc = "idle"
  /\ IF i = 1 THEN TRUE ELSE loads[i - 1].pc # "idle"
  /\ \E id \in LoadIds : loads' = [loads EXCEPT ![i] = LoadCallResult(loads[i], id)]
  /\ userGlobPattern' = GlobOf(userGlobPattern)
  /\ UNCHANGED <<options, config, bookEmojiConfig, projectRoot,
                 cr, disk, wrapped, last, ls>>
\* A call of load; call i + 1 is not made before call i.
load(i) ==
  /\ loads[i].pc = "idle"
  /\ IF i = 1 THEN TRUE ELSE loads[i - 1].pc # "idle"
  /\ \E id \in LoadIds : loads' = [loads EXCEPT ![i] = LoadCallResult(loads[i], id)]
  /\ UNCHANGED <<options, config, bookEmojiConfig, userGlobPattern, projectRoot,
                 cr, disk, wrapped, last, ls>>

\* A variant that reuses the file list an earlier call found for the pattern.
ScanResultCached(l, ok) ==
  LET earlier == {j \in 1..MaxLoads : loads[j].pc \in {"scanned", "returned"}
                                      /\ loads[j].glob = l.glob /\ ~loads[j].failed}
  IN  IF ~ok THEN [l EXCEPT !.pc = "scanned", !.scan = disk, !.failed = TRUE]
      ELSE IF earlier # {}
        THEN [l EXCEPT !.pc = "scanned", !.scan = disk,
                       !.files = loads[CHOOSE j \in earlier : TRUE].files]
      ELSE [l EXCEPT !.pc = "scanned", !.scan = disk, !.files = Fg(l.glob, disk, DiskOrder)]
\* fast-glob's scan ends: its promise settles with the files matching now, or
\* with an I/O error
ScanResult(l, ok) ==
  IF ok THEN [l EXCEPT !.pc = "scanned", !.scan = disk, !.files = Fg(l.glob, disk, DiskOrder)]
  ELSE [l EXCEPT !.pc = "scanned", !.scan = disk, !.failed = TRUE]

FgSettle(i) ==
  /\ loads[i].pc = "globbing"
  /\ \E ok \in BOOLEAN : loads' = [loads EXCEPT ![i] = ScanResult(loads[i], ok)]
  /\ UNCHANGED <<options, config, bookEmojiConfig, userGlobPattern, projectRoot,
                 cr, disk, wrapped, last, ls>>

\* lines 199-204
FoundLog(files) ==
  (IF config.command = "build" THEN Log("info", "") ELSE {})
  \cup Log("info", "Found stories")
  \cup UNION {Log("debug", "- name") : i \in 1..Len(files)}

\* A variant without the try/catch around the glob.
LoadResumeResultNoCatch(l) ==
  IF l.failed THEN [l EXCEPT !.pc = "rejected"]
  ELSE [l EXCEPT !.pc = "returned", !.base = ActiveBase,
                 !.ret = createExportStatements(ActiveBase, DotSlash(l.files)),
                 !.log = @ \cup FoundLog(l.files)]
\* lines 199-219, or the catch block of lines 223-226
LoadResumeResult(l) ==
  IF l.failed
    THEN [l EXCEPT !.pc = "returned", !.base = ActiveBase,
                   !.ret = createExportStatements(ActiveBase, <<>>),
                   !.log = @ \cup {<<"error", "Error globbing files">>}]
  ELSE [l EXCEPT !.pc = "returned", !.base = ActiveBase,
                 !.ret = createExportStatements(ActiveBase, DotSlash(l.files)),
                 !.log = @ \cup FoundLog(l.files)]

LoadResume(i) ==
  /\ loads[i].pc = "scanned"
  /\ loads' = [loads EXCEPT ![i] = LoadResumeResult(loads[i])]
  /\ UNCHANGED <<options, config, bookEmojiConfig, userGlobPattern, projectRoot,
                 cr, disk, wrapped, last, ls>>

\* ------------------------------------------------- configureServer, printUrls
configureServer ==
  /\ ~wrapped
  /\ wrapped' = TRUE
  /\ UNCHANGED <<options, config, bookEmojiConfig, userGlobPattern, projectRoot,
                 cr, loads, disk, last, ls>>

LocalUrls == {Undefined, <<"http://localhost:5173/">>}

\* lines 76-86: what the wrapper prints after the host's own lines
PrintedBase(url) ==
  IF ~options.silent /\ url # Undefined /\ bookEmojiConfig.defined
     /\ bookEmojiConfig.base \notin {Undefined, <<>>, <<"/">>}
    THEN bookEmojiConfig.base
  ELSE Undefined

printUrls ==
  /\ wrapped
  /\ \E url \in LocalUrls :
       last' = [hook |-> "printUrls", arg |-> url, ret |-> PrintedBase(url)]
  /\ UNCHANGED <<options, config, bookEmojiConfig, userGlobPattern, projectRoot,
                 cr, loads, disk, wrapped, ls>>

\* ----------------------------------------------------------- the file system
\* A story file is created or deleted under the project root.
AddFile ==
  /\ \E f \in DiskFiles \ disk : disk' = disk \cup {f}
  /\ UNCHANGED <<options, config, bookEmojiConfig, userGlobPattern, projectRoot,
                 cr, loads, wrapped, last, ls>>

RemoveFile ==
  /\ \E f \in disk \cap DiskFiles : disk' = disk \ {f}
  /\ UNCHANGED <<options, config, bookEmojiConfig, userGlobPattern, projectRoot,
                 cr, loads, wrapped, last, ls>>

\* ------------------------------------- createExportStatements, called alone
RECURSIVE DupFreeLists(_, _)
DupFreeLists(S, n) ==
  IF n = 0 THEN {<<>>}
  ELSE LET L == DupFreeLists(S, n - 1)
       IN  L \cup UNION {{Append(l, x) : x \in S \ {l[i] : i \in 1..Len(l)}} :
                          l \in {t \in L : Len(t) = n - 1}}

\* File names as a file system allows them: letters, quotes, backslashes.
NameAlphabet == {"a", DQ, SQ, BS}
SynthPaths == {<<".", "/">> \o n : n \in StringsUpTo(NameAlphabet, MaxPathLen) \ {<<>>}}
SynthBases == {<<>>, <<"/", "docs">>}

synthesize ==
  /\ \E base \in SynthBases, files \in DupFreeLists(SynthPaths, MaxList) :
       last' = [hook |-> "createExportStatements",
                arg |-> [base |-> base, files |-> files],
                ret |-> createExportStatements(base, files)]
  /\ UNCHANGED <<options, config, bookEmojiConfig, userGlobPattern, projectRoot,
                 cr, loads, disk, wrapped, ls>>

\* ---------------------------------- the synthesized module, when evaluated
\* A JavaScript string literal opened by quote q before position j: its value
\* and the position after its closing quote.  A backslash takes the next token
\* literally; a line end or the end of the text leaves the literal unterminated.
RECURSIVE ScanString(_, _, _, _)
ScanString(t, j, q, acc) ==
  IF j > Len(t) \/ t[j] = NL THEN [ok |-> FALSE, val |-> acc, next |-> j]
  ELSE IF t[j] = q THEN [ok |-> TRUE, val |-> acc, next |-> j + 1]
  ELSE IF t[j] = BS
    THEN IF j + 1 > Len(t) THEN [ok |-> FALSE, val |-> acc, next |-> j]
         ELSE ScanString(t, j + 2, q, Append(acc, t[j + 1]))
  ELSE ScanString(t, j + 1, q, Append(acc, t[j]))

\* The entries of the `stories` object literal from position j on: each a
\* double-quoted key, a colon and an import() of a single-quoted specifier.
RECURSIVE ScanEntries(_, _, _)
ScanEntries(t, j, acc) ==
  IF j > Len(t) THEN [ok |-> FALSE, entries |-> acc]
  ELSE IF t[j] \in {NL, Indent} THEN ScanEntries(t, j + 1, acc)
  ELSE IF t[j] = StoriesClose THEN [ok |-> TRUE, entries |-> acc]
  ELSE IF t[j] # DQ THEN [ok |-> FALSE, entries |-> acc]
  ELSE LET key == ScanString(t, j + 1, DQ, <<>>)
       IN  IF ~key.ok \/ key.next + 1 > Len(t) \/ t[key.next] # ImportIgnore
              \/ t[key.next + 1] # SQ
             THEN [ok |-> FALSE, entries |-> acc]
           ELSE LET target == ScanString(t, key.next + 2, SQ, <<>>)
                IN  IF ~target.ok \/ target.next > Len(t) \/ t[target.next] # EntryEnd
                      THEN [ok |-> FALSE, entries |-> acc]
                    ELSE ScanEntries(t, target.next + 1,
                                     Append(acc, [key |-> key.val, target |-> target.val]))

\* The `stories` export of a module text: whether the literal parses, and its
\* key -> imported specifier entries.
StoriesOf(text) ==
  LET at == {j \in 1..Len(text) : text[j] = StoriesOpen}
  IN  IF at = {} THEN [ok |-> FALSE, entries |-> <<>>]
      ELSE ScanEntries(text, (CHOOSE j \in at : \A k \in at : j <= k) + 1, <<>>)

\* -------------------------------------------------------------- loadStories
LoaderPaths == {<<".", "/", "a">>, <<".", "/", "b">>, <<".", "/", "c">>}
\* What an import() may fulfil with: a module namespace whose default export is
\* a value, is null, or is missing.
StoryModules == {"component", "null", "undefined"}

NullValue == [kind |-> "null", of |-> "none"]
Pending == [st |-> "pending", mod |-> "none"]
PathsOf(files) == {files[i] : i \in 1..Len(files)}

\* mod.default ?? mod
DefaultOrSelf(mod) ==
  IF mod \in {"null", "undefined"} THEN [kind |-> "module", of |-> mod]
  ELSE [kind |-> "default", of |-> mod]

\* lines 248-262: the object literals, the loader.then(...) calls and the call
\* of Promise.allSettled
loadStories ==
  /\ ls.pc = "idle"
  /\ \E files \in DupFreeLists(LoaderPaths, MaxList) :
       ls' = [pc |-> "awaiting", files |-> files,
              imports |-> [p \in PathsOf(files) |-> Pending],
              thens |-> [p \in PathsOf(files) |-> "pending"],
              record |-> [p \in PathsOf(files) |-> NullValue],
              ret |-> <<>>]
  /\ UNCHANGED <<options, config, bookEmojiConfig, userGlobPattern, projectRoot,
                 cr, loads, disk, wrapped, last>>

\* one import() settles
importSettles ==
  /\ ls.pc = "awaiting"
  /\ \E p \in DOMAIN ls.imports, out \in StoryModules \cup {"rejected"} :
       /\ ls.imports[p].st = "pending"
       /\ ls' = [ls EXCEPT !.imports[p] =
                   IF out = "rejected" THEN [st |-> "rejected", mod |-> "none"]
                   ELSE [st |-> "fulfilled", mod |-> out]]
  /\ UNCHANGED <<options, config, bookEmojiConfig, userGlobPattern, projectRoot,
                 cr, loads, disk, wrapped, last>>

\* lines 257-259: the reaction of loader.then runs, or the rejection passes
\* through to the derived promise
ThenResult(l, p) ==
  IF l.imports[p].st = "fulfilled"
    THEN [l EXCEPT !.record[p] = DefaultOrSelf(l.imports[p].mod), !.thens[p] = "fulfilled"]
  ELSE [l EXCEPT !.thens[p] = "rejected"]

thenReaction ==
  /\ ls.pc = "awaiting"
  /\ \E p \in DOMAIN ls.imports :
       /\ ls.imports[p].st # "pending"
       /\ ls.thens[p] = "pending"
       /\ ls' = ThenResult(ls, p)
  /\ UNCHANGED <<options, config, bookEmojiConfig, userGlobPattern, projectRoot,
                 cr, loads, disk, wrapped, last>>

\* A variant joining with Promise.all.
JoinOutcomeAll(thens) ==
  IF \E p \in DOMAIN thens : thens[p] = "rejected" THEN "rejected"
  ELSE IF \A p \in DOMAIN thens : thens[p] = "fulfilled" THEN "resolved"
  ELSE "pending"
\* Promise.allSettled(loadPromises): pending until every member has settled,
\* then fulfilled
JoinOutcome(thens) ==
  IF \A p \in DOMAIN thens : thens[p] # "pending" THEN "resolved" ELSE "pending"

\* lines 262-264: the await resumes and the record is returned
loadStoriesResumes ==
  /\ ls.pc = "awaiting"
  /\ JoinOutcome(ls.thens) # "pending"
  /\ ls' = [ls EXCEPT !.pc = JoinOutcome(ls.thens),
                      !.ret = IF JoinOutcome(ls.thens) = "resolved" THEN ls.record ELSE <<>>]
  /\ UNCHANGED <<options, config, bookEmojiConfig, userGlobPattern, projectRoot,
                 cr, loads, disk, wrapped, last>>

\* ------------------------------------------------------------ specifications
\* A session: the host calls the hooks, the file system changes.
Next ==
  \/ configResolved
  \/ accessSettled
  \/ importSettled(HostModules)
  \/ resolveId(HostSources)
  \/ \E i \in 1..MaxLoads : load(i)
  \/ \E i \in 1..MaxLoads : FgSettle(i)
  \/ \E i \in 1..MaxLoads : LoadResume(i)
  \/ configureServer
  \/ printUrls
  \/ AddFile
  \/ RemoveFile

Spec == Init /\ [][Next]_vars

\* The hooks alone, in any order, over an unchanging file system.
NextHooks ==
  \/ configResolved
  \/ accessSettled
  \/ importSettled(HostModules)
  \/ resolveId(HostSources)
  \/ \E i \in 1..MaxLoads : load(i)
  \/ \E i \in 1..MaxLoads : FgSettle(i)
  \/ \E i \in 1..MaxLoads : LoadResume(i)
  \/ configureServer
  \/ printUrls
SpecHooks == Init /\ [][NextHooks]_vars

\* The part of a session that discovers files: configResolved, the load calls
\* and the file system.
NextLoads ==
  \/ configResolved
  \/ accessSettled
  \/ importSettled(HostModules)
  \/ \E i \in 1..MaxLoads : load(i)
  \/ \E i \in 1..MaxLoads : FgSettle(i)
  \/ \E i \in 1..MaxLoads : LoadResume(i)
  \/ AddFile
  \/ RemoveFile
SpecLoads == Init /\ [][NextLoads]_vars

\* resolveId on every specifier of up to MaxSrcLen tokens.
NextResolve == resolveId(AllSources)
SpecResolve == Init /\ [][NextResolve]_vars

\* Sessions whose svelte.config.js names any glob pattern of up to MaxPatLen
\* tokens, up to the point where load hands its pattern to fast-glob.
NextGlob ==
  \/ configResolved
  \/ accessSettled
  \/ importSettled(PatternModules)
  \/ \E i \in 1..MaxLoads : load(i)
SpecGlob == Init /\ [][NextGlob]_vars

\* createExportStatements on every duplicate-free list of up to MaxList paths.
NextSynth == synthesize
SpecSynth == Init /\ [][NextSynth]_vars

\* One call of loadStories, its imports settling in any order.
NextLoader == loadStories \/ importSettles \/ thenReaction \/ loadStoriesResumes
SpecLoader == Init /\ [][NextLoader]_vars

\* --------------------------------------------------------------- properties
HasLevel(log, level) == \E e \in log : e[1] = level
HasParen(s) == Includes(s, "(") \/ Includes(s, ")")
Returned(l) == l.pc = "returned" /\ l.id = resolvedVirtualModuleId
EmptyModule(l) == createExportStatements(l.base, <<>>)

RECURSIVE InsertBackslashes(_)
InsertBackslashes(s) ==
  IF s = <<>> THEN <<>>
  ELSE (IF Head(s) \in {"(", ")"} THEN <<BS, Head(s)>> ELSE <<Head(s)>>)
       \o InsertBackslashes(Tail(s))

\* C1: once configResolved has loaded a config whose default export is
\* { bookemoji: {} }, a warning has been logged, the pattern load will use is
\* the built-in default (never the empty pattern) and the active base is "".
C1_EmptySectionFallsBackToDefault ==
  (cr.pc = "done" /\ cr.loaded /\ cr.mod = ModDefault(BookEmoji(Undefined, Undefined)))
    => /\ HasLevel(cr.log, "warn")
       /\ userGlobPattern = DefaultGlobPattern
       /\ ActiveBase = <<>>

\* C2: once configResolved has loaded a config whose default export has no
\* `bookemoji` key, a warning has been logged, bookEmojiConfig is unset and the
\* active pattern is still the built-in default.
C2_NoSectionKeepsDefaults ==
  (cr.pc = "done" /\ cr.loaded /\ cr.mod = ModDefault(NoBookEmoji))
    => /\ HasLevel(cr.log, "warn")
       /\ ~bookEmojiConfig.defined
       /\ userGlobPattern = DefaultGlobPattern

\* C3: whenever fs.access or import() threw, configResolved completed without
\* rejecting, bookEmojiConfig is unset, the pattern is the built-in default, the
\* base is "", and the failure was logged at error level exactly when the
\* thrown value is ENOENT and at warn level otherwise.
C3_ThrowKeepsDefaultsAndLogs ==
  cr.thrown # "none"
    => /\ cr.pc = "done"
       /\ ~bookEmojiConfig.defined
       /\ userGlobPattern = DefaultGlobPattern
       /\ ActiveBase = <<>>
       /\ HasLevel(cr.log, "error") <=> cr.thrown = "ENOENT"
       /\ HasLevel(cr.log, "warn") <=> cr.thrown # "ENOENT"

\* C4: a load of the internal id never rejects and returns module text in every
\* plugin state: with the project root unset or with fast-glob failing it logs an
\* error-level line and returns the module synthesized from the base and no
\* files; with no match it returns that same well-formed empty module.
C4_LoadAlwaysReturnsText ==
  \A i \in 1..MaxLoads :
    LET l == loads[i]
    IN  /\ l.pc # "rejected"
        /\ Returned(l) =>
             /\ l.ret \notin {Undefined, Null}
             /\ StoriesOf(l.ret).ok
             /\ l.base \in {<<>>, ActiveBase}
             /\ (l.failed \/ l.glob = Undefined) =>
                  HasLevel(l.log, "error") /\ l.ret = EmptyModule(l)
             /\ (~l.failed /\ l.files = <<>>) =>
                  l.ret = EmptyModule(l) /\ StoriesOf(l.ret).entries = <<>>

C4_Witness ==
  \E i \in 1..MaxLoads :
    Returned(loads[i]) /\ loads[i].failed /\ loads[i].base = <<"/", "docs">>

\* C5: resolveId returns the internal id NUL + "virtual:bookemoji" exactly for
\* the specifier "virtual:bookemoji", and null for every other string, the
\* internal id included.
C5_ResolveIdOnlyVirtual ==
  last.hook = "resolveId"
    => /\ last.ret = <<NUL, "virtual:book", "emoji">> <=> last.arg = <<"virtual:book", "emoji">>
       /\ last.arg # <<"virtual:book", "emoji">> => last.ret = Null

C5_Witness ==
  /\ last.hook = "resolveId"
  /\ last.arg = resolvedVirtualModuleId
  /\ last.ret = Null

\* C6 (as amended): for a configured pattern with "(" or ")", the pattern load
\* hands to fast-glob is the posix-normalized pattern with a backslash before
\* every parenthesis and nothing else changed.
C6_GlobIsNormalizedThenEscaped ==
  \A i \in 1..MaxLoads :
    (loads[i].pc = "globbing" /\ HasParen(loads[i].pattern))
      => loads[i].glob = InsertBackslashes(PosixNormalize(loads[i].pattern))

\* C6 (as written): for a configured pattern with "(" or ")", the pattern load
\* hands to fast-glob is the configured pattern with a backslash before every
\* parenthesis and nothing else changed.
C6_GlobIsPatternEscaped ==
  \A i \in 1..MaxLoads :
    (loads[i].pc = "globbing" /\ HasParen(loads[i].pattern))
      => loads[i].glob = InsertBackslashes(loads[i].pattern)

C6_Witness ==
  \E i \in 1..MaxLoads :
    /\ loads[i].pc = "globbing"
    /\ loads[i].pattern = <<".", "/", "(">>
    /\ loads[i].glob = <<BS, "(">>

\* C7: for every duplicate-free list of paths, the `stories` object of the
\* synthesized text evaluates to a mapping whose keys are exactly the input
\* paths, each mapped to an import() of that same path.
C7_StoriesKeysAreTheFiles ==
  last.hook = "createExportStatements"
    => LET st == StoriesOf(last.ret)
       IN  /\ st.ok
           /\ {st.entries[k].key : k \in 1..Len(st.entries)} = PathsOf(last.arg.files)
           /\ \A k \in 1..Len(st.entries) : st.entries[k].target = st.entries[k].key

\* C8: loadStories never rejects; it resolves only once every import has
\* settled, with one entry per path: null where the import rejected, the
\* module's default export where it has one, the module itself otherwise; for
\* no paths it resolves to the empty mapping.
ExpectedEntry(imp) ==
  IF imp.st = "rejected" THEN NullValue
  ELSE IF imp.mod = "component" THEN [kind |-> "default", of |-> "component"]
  ELSE [kind |-> "module", of |-> imp.mod]

C8_LoadStoriesSettlesAll ==
  /\ ls.pc # "rejected"
  /\ ls.pc = "resolved" =>
       /\ DOMAIN ls.ret = PathsOf(ls.files)
       /\ \A p \in PathsOf(ls.files) :
            /\ ls.imports[p].st # "pending"
            /\ ls.ret[p] = ExpectedEntry(ls.imports[p])
       /\ ls.files = <<>> => ls.ret = <<>>

C8_Witness ==
  /\ ls.pc = "resolved"
  /\ \E p, q \in PathsOf(ls.files) :
       /\ ls.imports[p].st = "rejected" /\ ls.ret[p] = NullValue
       /\ ls.imports[q].st = "fulfilled" /\ ls.ret[q].kind = "default"

\* C9: only a step of configResolved writes the project root, the resolved
\* bookemoji config or the active pattern: every step of resolveId, load,
\* fast-glob settling, configureServer and printUrls leaves all three as they are.
C9_OnlyConfigResolvedWrites == [][cr' = cr => pluginState' = pluginState]_vars

C9_Witness ==
  /\ cr.pc = "done" /\ bookEmojiConfig.defined
  /\ userGlobPattern = CustomGlobPattern
  /\ last.hook = "printUrls"
  /\ \E i \in 1..MaxLoads : Returned(loads[i]) /\ loads[i].failed
  /\ \E i \in 1..MaxLoads : loads[i].pc = "returned" /\ loads[i].ret = Null

=============================================================================
